---- MODULE Spec2Model ----
(***************************************************************************)
(* Model of AILegalDocumentExtractor                                       *)
(* (src/scripts/legal_document_extractor_simple.py): one client instance,  *)
(* its RetryState (rate_limit_reset_time, last_api_call_time), the retry   *)
(* loop of _chat_with_retry, the cascade of extract_from_text and the      *)
(* entry points extract_from_file, extract_batch and check_api_status.     *)
(*                                                                         *)
(* Time is counted in ticks, TicksPerSecond ticks to the second.  A text  *)
(* is a sequence of characters over a small                                *)
(* alphabet: "a" stands for any non-whitespace character, " " and "\n"     *)
(* are whitespace.                                                         *)
(***************************************************************************)
EXTENDS Integers, Sequences, FiniteSets, TLC

\* ----------------------------------------------------------------- bounds
MaxRetries == 2
MaxLen == 1
MaxDocs == 2
MaxPages == 1
MaxOps == 1
MaxCallTicks == 1
MaxIdleTicks == 1
TicksPerSecond == 2
RetryAfterSeconds == 3
MaxBackoffRetries == 8
MaxCalls == 3
MaxPdfPages == 2
MaxCandidates == 2
MaxTokens == 5
MaxLines == 4

\* ------------------------------------------------------ program constants
min_delay_between_calls == 1
delay_between_requests == 2
JitterLo == 80
JitterHi == 120

None == <<>>

Min(a, b) == IF a < b THEN a ELSE b

Seconds(s) == s * TicksPerSecond

\* ------------------------------------------------------------------ texts
Whitespace == {" ", "\n"}
Alphabet == {" ", "a"}

RECURSIVE SeqsUpTo(_, _)
SeqsUpTo(S, n) ==
    IF n = 0 THEN {<<>>}
    ELSE LET shorter == SeqsUpTo(S, n - 1)
         IN  shorter \cup {Append(s, c) : s \in shorter, c \in S}

Texts == SeqsUpTo(Alphabet, MaxLen)

RECURSIVE lstrip(_)
lstrip(t) == IF t # <<>> /\ Head(t) \in Whitespace THEN lstrip(Tail(t)) ELSE t

RECURSIVE rstrip(_)
rstrip(t) ==
    IF t # <<>> /\ t[Len(t)] \in Whitespace
    THEN rstrip(SubSeq(t, 1, Len(t) - 1))
    ELSE t

strip(t) == rstrip(lstrip(t))

\* re.sub(r'\s+', ' ', text): every run of whitespace becomes one blank
RECURSIVE collapse_whitespace(_)
collapse_whitespace(t) ==
    IF t = <<>> THEN <<>>
    ELSE IF Head(t) \in Whitespace
         THEN <<" ">> \o collapse_whitespace(lstrip(t))
         ELSE <<Head(t)>> \o collapse_whitespace(Tail(t))

clean_text(t) == IF t = <<>> THEN <<>> ELSE strip(collapse_whitespace(t))

\* ---------------------------------------------------------------- records
Null == "null"

\* r[k] = v on a dict: the key is added when r lacks it
SetItem(r, k, v) == (k :> v) @@ r

CouncilDefaults ==
    [advocateForRespondent |-> "none", advocateForAppellant |-> "none",
     extraCouncilDetails |-> "none"]

CourtDefaults ==
    [allJudges |-> "none", courtBenchId |-> 1, courtBranchId |-> "34",
     courtId |-> 1, citationCategory |-> ""]

Citation(citation, year) ==
    [citationCategoryId |-> 0, journalId |-> 0, otherCitation |-> citation,
     neutralCitation |-> citation, pageNumber |-> "1", year |-> year,
     volume |-> "none", secondaryCitationCategoryId |-> 0,
     secondaryJournalId |-> 0, secondaryPageNumber |-> "",
     secondaryYear |-> "0", secondaryVolume |-> "",
     thirdCitationCategoryId |-> 0, thirdJournalId |-> 0,
     thirdPageNumber |-> "none", thirdYear |-> "0", thirdVolume |-> "none",
     fourthCitationCategoryId |-> 0, fourthJournalId |-> 0,
     fourthPageNumber |-> "none", fourthYear |-> "0",
     fourthVolume |-> "none"]

create_error_result(error_msg) ==
    [docId |-> 0, appellant |-> "Appellant", remarkable |-> "none",
     respondent |-> "Respondents", judgeName |-> "none",
     judgementOrder |-> "", judgementType |-> "Judgement",
     caseResult |-> "Extraction failed",
     doubleCouncilDetailRequest |-> CouncilDefaults,
     singleCouncilDetailRequest |-> Null,
     courtDetailRequest |-> CourtDefaults,
     citationRequest |-> Citation("", 2025),
     additionalAppellantRespondentRequestList |-> <<>>,
     caseHistoryRequest |->
        [caseNumber |-> "1", decidedDay |-> "1", decidedMonth |-> "1",
         decidedYear |-> 2025, notes |-> "none", year |-> 2025],
     headNoteRequestList |-> <<>>, caseTopics |-> <<>>,
     success |-> FALSE, error |-> error_msg,
     extraction_method |-> "Error"]

\* The pattern extractors.  Every pattern of the source needs a literal
\* keyword (Versus, Petitioner, JUSTICE, "Writ Petition No", " v. "), so on
\* a text made of Alphabet only each returns the value of its no-match
\* branch.
\* What the patterns find in a text: for each pattern list, per pattern, the
\* first group of re.search (None without a match; the whole sentence for
\* the case-number patterns), and the (party, case number) pairs that
\* findall returns for the referred-case pattern.
NoMatch ==
    [appellant |-> [i \in 1..6 |-> None],
     respondent |-> [i \in 1..4 |-> None],
     judge |-> [i \in 1..3 |-> None],
     case_info |-> [i \in 1..3 |-> None],
     case_referred |-> <<>>]

RECURSIVE join(_, _)
join(sep, list) ==
    IF list = <<>> THEN ""
    ELSE IF Len(list) = 1 THEN list[1]
    ELSE list[1] \o sep \o join(sep, Tail(list))

\* A judgment text is a sequence of tokens: a blank, a line break, or a
\* run of characters without whitespace at either end.  The tokens of the
\* line that starts at position i:
line_at(text, i) ==
    LET ends == {j \in i..Len(text) : text[j] = "\n"}
        stop == IF ends = {} THEN Len(text) + 1
                ELSE CHOOSE j \in ends : \A k \in ends : j <= k
    IN  SubSeq(text, i, stop - 1)

\* line 911, ^([A-Z][A-Za-z &.]+?)\s*\n.*?Versus under MULTILINE and DOTALL:
\* the first line that starts with a letter, ends in a line break and has
\* Versus somewhere after that line break; the group is the line without
\* its trailing blanks
versus_above(text) ==
    LET starts ==
            {i \in DOMAIN text :
                /\ i = 1 \/ text[i - 1] = "\n"
                /\ text[i] \notin Whitespace
                /\ \E k \in i + Len(line_at(text, i)) + 1..Len(text) :
                      text[k] = "Versus"}
    IN  IF starts = {} THEN None
        ELSE LET i == CHOOSE j \in starts : \A k \in starts : j <= k
             IN  <<join("", rstrip(line_at(text, i)))>>

\* line 929, Versus\s*\n([A-Z][A-Za-z &.]+), and with indented set line 933,
\* [Vv]ersus\s*\n\s*([A-Z]...+?)(?=\s*(?:\n|through|$)): the first Versus
\* followed by whitespace that ends in (line 929) or holds (line 933) a
\* line break; the group is the line after that whitespace, which strip()
\* leaves without its trailing blanks
versus_below(text, indented) ==
    LET group(k) ==
            CHOOSE m \in k + 1..Len(text) + 1 :
                /\ \A j \in k + 1..m - 1 : text[j] \in Whitespace
                /\ m <= Len(text) => text[m] \notin Whitespace
        starts ==
            {k \in DOMAIN text :
                /\ text[k] = "Versus"
                /\ group(k) <= Len(text)
                /\ IF indented
                   THEN \E j \in k + 1..group(k) - 1 : text[j] = "\n"
                   ELSE group(k) > k + 1 /\ text[group(k) - 1] = "\n"}
    IN  IF starts = {} THEN None
        ELSE LET k == CHOOSE j \in starts : \A l \in starts : j <= l
             IN  <<join("", rstrip(line_at(text, group(k))))>>

\* line 945 under MULTILINE: the first title line HON'BLE MR. JUSTICE JOHN
\* DOE whose name runs to the end of its line over letters, blanks and
\* full stops (a second title on the line ends the run at its apostrophe);
\* the group is the name with the rest of the line
JusticeLine == "HON'BLE MR. JUSTICE JOHN DOE"

justice_line(text) ==
    LET starts ==
            {i \in DOMAIN text :
                /\ text[i] = JusticeLine
                /\ \A j \in 1..Len(line_at(text, i + 1)) :
                      line_at(text, i + 1)[j] # JusticeLine}
    IN  IF starts = {} THEN None
        ELSE LET i == CHOOSE j \in starts : \A k \in starts : j <= k
             IN  <<join("", rstrip(<<"JOHN DOE">> \o line_at(text, i + 1)))>>

\* re.search of every pattern in a text of this model
search(text) ==
    [NoMatch EXCEPT
        !.appellant[1] = versus_above(text),
        !.respondent[1] = versus_below(text, FALSE),
        !.respondent[4] = versus_below(text, TRUE),
        !.judge[1] = justice_line(text)]

\* str.strip, str.lower and the substitutions of lines 953-955 on the
\* strings the patterns capture in this model
strip_str(s) ==
    CASE s = "Ankush Shikshan Sanstha " -> "Ankush Shikshan Sanstha"
      [] s = "Nagpur University " -> "Nagpur University"
      [] OTHER -> s

lower(s) ==
    CASE s = "Union of India vs Tarsem Singh" ->
            "union of india vs tarsem singh"
      [] s = "UNION OF INDIA VS TARSEM SINGH" ->
            "union of india vs tarsem singh"
      [] s = "(2008) 8 SCC 648" -> "(2008) 8 scc 648"
      [] s = "High Court of Judicature at Bombay" ->
            "high court of judicature at bombay"
      [] s = "High Court of Judicature at Bombay, Bench at Aurangabad" ->
            "high court of judicature at bombay, bench at aurangabad"
      [] s = "Supreme Court of India" -> "supreme court of india"
      [] s = "District Court, Pune" -> "district court, pune"
      [] s = "Not found" -> "not found"
      [] OTHER -> s

judge_sub(s) ==
    CASE s = "Justice Nivedita P. Mehta" -> "Nivedita P. Mehta"
      [] s = "Justice" -> ""
      [] OTHER -> s

\* re.search(r'(\d+)\s*/\s*(\d{4})', full_sentence), line 983
num_year_match(full_sentence) ==
    CASE full_sentence = "Writ Petition No. 2134/2022" ->
            [ok |-> TRUE, number |-> "2134", year |-> 2022]
      [] OTHER -> [ok |-> FALSE, number |-> "", year |-> 0]

\* first_match with an empty group where no pattern matches
first_match_or_empty(matches) ==
    IF matches = <<>> THEN None ELSE <<"">>

\* the loops of lines 919-923, 936-940 and 951-958: the group of the first
\* pattern that matches, or None
RECURSIVE first_match(_)
first_match(matches) ==
    IF matches = <<>> THEN None
    ELSE IF Head(matches) # None THEN Head(matches)
    ELSE first_match(Tail(matches))

appellant_regex(found) ==
    LET match == first_match(found.appellant)
    IN  IF match # None THEN strip_str(match[1]) ELSE "Appellant"

respondent_regex(found) ==
    LET match == first_match(found.respondent)
    IN  IF match # None THEN strip_str(match[1]) ELSE "Respondents"

judge_regex(found) ==
    LET match == first_match(found.judge)
    IN  IF match # None THEN judge_sub(strip_str(match[1])) ELSE "none"

case_info_regex(found) ==
    LET case_info == [caseNumber |-> "1", decidedDay |-> "1",
                      decidedMonth |-> "1", decidedYear |-> 2025,
                      notes |-> "none", year |-> 2025]
        match == first_match(found.case_info)
        full_sentence == strip_str(match[1])
        m == num_year_match(full_sentence)
    IN  IF match = None THEN case_info
        ELSE IF m.ok
        THEN [case_info EXCEPT !.caseNumber = m.number,
                               !.decidedYear = m.year, !.year = m.year,
                               !.notes = full_sentence]
        ELSE [case_info EXCEPT !.notes = full_sentence]

\* lines 1020-1029: the first item of every (caseNo, partyName) key
RECURSIVE unique(_, _)
unique(results, seen) ==
    IF results = <<>> THEN <<>>
    ELSE LET item == Head(results)
             key == <<lower(item.caseNo), lower(item.partyName)>>
         IN  IF key \in seen THEN unique(Tail(results), seen)
             ELSE <<item>> \o unique(Tail(results), seen \cup {key})

case_referred_regex(found) ==
    unique([i \in 1..Len(found.case_referred) |->
               LET party == strip_str(found.case_referred[i][1])
                   case_no == strip_str(found.case_referred[i][2])
               IN  [caseNo |-> IF case_no # "" THEN "(" \o case_no \o ")"
                               ELSE "",
                    partyName |-> party]],
           {})

with_regex(found) ==
    LET judge == judge_regex(found)
        case_info == case_info_regex(found)
    IN  [docId |-> 0, appellant |-> appellant_regex(found),
         remarkable |-> "none",
         respondent |-> respondent_regex(found),
         judgeName |-> judge,
         judgementOrder |-> "", judgementType |-> "Judgement",
         caseResult |-> "Case outcome to be determined",
         doubleCouncilDetailRequest |-> CouncilDefaults,
         singleCouncilDetailRequest |-> Null,
         courtDetailRequest |-> [CourtDefaults EXCEPT !.allJudges = judge],
         citationRequest |-> Citation("", case_info.year),
         additionalAppellantRespondentRequestList |-> <<>>,
         caseHistoryRequest |-> case_info,
         headNoteRequestList |-> <<>>, caseTopics |-> <<>>,
         success |-> TRUE, extraction_method |-> "Regex fallback",
         caseReferred |-> case_referred_regex(found)]

\* the pattern extractors on the texts of the client's specification
extract_judge_regex(text) == judge_regex(search(text))
extract_case_referred(text) == case_referred_regex(search(text))

extract_with_regex(text) == with_regex(search(text))

\* ------------------------------------------------- the remote reply (JSON)
\* A decoded reply is a record holding the keys the reply carries.  A string
\* that the code splits at commas (judge_name) is held as the sequence of
\* its comma-separated parts; a date string is held as the string itself.
get(d, k, default) == IF k \in DOMAIN d THEN d[k] ELSE default

\* str(v), line 757: a JSON null is decoded to None
str(v) == IF v = Null THEN "None" ELSE v

\* datetime.strptime(decided_date, '%Y-%m-%d') on the dates of this model
strptime(date) ==
    CASE date = "2023-01-15" -> [ok |-> TRUE, day |-> "15", month |-> "1", year |-> 2023]
      [] OTHER -> [ok |-> FALSE, day |-> "", month |-> "", year |-> 0]

\* map_court_info without the default mapping
map_court_info_unmatched(court_name) == [allJudges |-> "none"]

\* _map_court_info, lines 776-837, on the court names of this model: the
\* lower-cased name ("" for None and ''), the Aurangabad case of line 826,
\* then the first pattern of court_mappings that re.search finds in it
map_court_info(court_name) ==
    LET court_name_lower == IF court_name # Null /\ court_name # ""
                            THEN lower(court_name) ELSE ""
    IN  CASE court_name_lower =
                "high court of judicature at bombay, bench at aurangabad" ->
                [CourtDefaults EXCEPT !.courtId = 19, !.courtBenchId = 1,
                                      !.courtBranchId = "43",
                                      !.citationCategory = "Bom"]
          [] court_name_lower = "high court of judicature at bombay" ->
                [CourtDefaults EXCEPT !.courtId = 19, !.courtBenchId = 1,
                                      !.courtBranchId = "43",
                                      !.citationCategory = "Bom"]
          [] court_name_lower = "supreme court of india" ->
                [CourtDefaults EXCEPT !.courtId = 1, !.courtBenchId = 1,
                                      !.courtBranchId = "34",
                                      !.citationCategory = "SC"]
          [] OTHER -> CourtDefaults

format_ai_result(ai_data) ==
    LET appellants == get(ai_data, "appellants", <<>>)
        appellant_str == IF appellants # <<>> THEN join(", ", appellants)
                         ELSE "Appellant"
        respondents == get(ai_data, "respondents", <<>>)
        respondent_str == IF respondents # <<>> THEN join(", ", respondents)
                          ELSE "Respondents"
        case_year == get(ai_data, "case_year", 2025)
        decided_date == get(ai_data, "decided_date", "none")
        parsed == IF decided_date # Null /\ decided_date # ""
                     /\ decided_date # "none"
                  THEN strptime(decided_date)
                  ELSE [ok |-> FALSE, day |-> "", month |-> "", year |-> 0]
        decided_day == IF parsed.ok THEN parsed.day ELSE "1"
        decided_month == IF parsed.ok THEN parsed.month ELSE "1"
        decided_year == IF parsed.ok THEN parsed.year ELSE case_year
        raw_judge == get(ai_data, "judge_name", <<"none">>)
        judge_names == IF raw_judge # <<>> /\ raw_judge # <<"none">>
                       THEN SelectSeq(raw_judge, LAMBDA j : j # "")
                       ELSE <<>>
        formatted_all_judges ==
            IF Len(judge_names) > 1
            THEN join(", ", [i \in 1..Len(judge_names) |->
                                "Hon'ble " \o judge_names[i]]) \o " JJ."
            ELSE IF Len(judge_names) = 1
                 THEN "Hon'ble " \o judge_names[1] \o " J."
                 ELSE "none"
        formatted_judge_name ==
            IF Len(judge_names) >= 1
            THEN "Hon'ble " \o judge_names[1] \o " J."
            ELSE "none"
        court_info == [map_court_info(get(ai_data, "court_name", ""))
                          EXCEPT !.allJudges = formatted_all_judges]
        case_referred == get(ai_data, "caseReferred", <<>>)
        validated_case_referred ==
            [i \in 1..Len(case_referred) |->
                [caseNo |-> get(case_referred[i], "caseNo", ""),
                 partyName |-> get(case_referred[i], "partyName", "")]]
        citation == get(ai_data, "citation", "")
    IN  [docId |-> 0, appellant |-> appellant_str, remarkable |-> "none",
         respondent |-> respondent_str, judgeName |-> formatted_judge_name,
         judgementOrder |-> "",
         judgementType |-> get(ai_data, "judgment_type", "Judgement"),
         caseResult |-> get(ai_data, "case_result",
                            "Case outcome to be determined"),
         doubleCouncilDetailRequest |->
            [advocateForRespondent |->
                get(ai_data, "respondent_advocate", "none"),
             advocateForAppellant |->
                get(ai_data, "appellant_advocate", "none"),
             extraCouncilDetails |-> "none"],
         singleCouncilDetailRequest |-> Null,
         courtDetailRequest |-> court_info,
         citationRequest |-> Citation(citation, case_year),
         additionalAppellantRespondentRequestList |-> <<>>,
         caseHistoryRequest |->
            [caseNumber |-> str(get(ai_data, "case_number", "1")),
             decidedDay |-> decided_day, decidedMonth |-> decided_month,
             decidedYear |-> decided_year,
             notes |-> get(ai_data, "notes", "none"), year |-> case_year],
         headNoteRequestList |-> <<>>, caseTopics |-> <<>>,
         success |-> TRUE, extraction_method |-> "OpenAI GPT-4",
         ai_metadata |->
            [case_type |-> get(ai_data, "case_type", "none"),
             case_status |-> get(ai_data, "case_status", "none"),
             bench_strength |-> get(ai_data, "bench_strength", 1)],
         caseReferred |-> validated_case_referred]

\* The replies the remote service gives in this model, per request.
\* The reply "full" carries what was asked for; the reply "none" is prose
\* saying that nothing was found (for the judge request, the word none).
FullReply ==
    [appellants |-> <<"Ankush Shikshan Sanstha">>,
     respondents |-> <<"Nagpur University">>,
     judge_name |-> <<"Nivedita P. Mehta">>,
     case_number |-> "2134", case_year |-> 2022,
     court_name |-> "High Court of Judicature at Bombay",
     court_location |-> "Nagpur", judgment_type |-> "Judgment",
     case_result |-> "Petition dismissed",
     appellant_advocate |-> "S.D. Lotlikar",
     respondent_advocate |-> "Maria Correira",
     case_type |-> "Writ Petition", decided_date |-> "2023-01-15",
     citation |-> "2023:BHC-NAG:12345", bench_strength |-> 1,
     case_status |-> "Dismissed",
     caseReferred |-> <<[caseNo |-> "(2008) 8 SCC 648",
                         partyName |-> "Union of India vs Tarsem Singh"]>>]

EmptyObjectReply == [x \in {} |-> 0]

ReferredReply ==
    <<[caseNo |-> "(2008) 8 SCC 648",
       partyName |-> "Union of India vs Tarsem Singh"]>>

JudgeReply == "Hon'ble Nivedita P. Mehta, J."

Replies == {"full", "none"}

\* --------------------------------------------- exceptions of a remote call
\* The classes client.chat.completions.create raises, with the base classes
\* the except clauses of the source test them against (openai v1.x:
\* RateLimitError, BadRequestError and InternalServerError derive from
\* APIStatusError, which derives from APIError; APITimeoutError derives from
\* APIConnectionError, which derives from APIError).  BadRequestError is the
\* service rejecting the request itself (HTTP 400).
Bases(cls) ==
    CASE cls = "RateLimitError" -> {"RateLimitError", "APIError", "Exception"}
      [] cls = "BadRequestError" -> {"BadRequestError", "APIError", "Exception"}
      [] cls = "InternalServerError" ->
            {"InternalServerError", "APIError", "Exception"}
      [] cls = "APITimeoutError" ->
            {"APITimeoutError", "APIError", "Exception"}
      [] cls = "ConnectionError" -> {"ConnectionError", "Exception"}
      [] cls = "TimeoutError" -> {"TimeoutError", "Exception"}
      [] OTHER -> {cls, "Exception"}

isinstance(cls, classes) == Bases(cls) \cap classes # {}

ErrorClasses ==
    {"RateLimitError", "BadRequestError", "APITimeoutError",
     "ConnectionError", "ValueError"}

should_retry_error(error) ==
    isinstance(error, {"RateLimitError", "APIError", "APITimeoutError",
                       "ConnectionError", "TimeoutError"})

\* ------------------------------------------------------------ retry delay
RECURSIVE Pow2(_)
Pow2(n) == IF n = 0 THEN 1 ELSE 2 * Pow2(n - 1)

caps(error_type) ==
    CASE error_type = "rate_limit" -> 120
      [] error_type = "api_error" -> 60
      [] error_type = "timeout" -> 30
      [] OTHER -> 15

\* jitter is random.uniform(0.8, 1.2) in hundredths; int() truncates
get_retry_delay(attempt, error_type, jitter) ==
    LET base_delay == Pow2(attempt)
        delay == Min(base_delay, caps(error_type))
    IN  (delay * jitter) \div 100

JitterDraws == {JitterLo, JitterHi}

\* ------------------------------------------------------------------ state
VARIABLES
    api_key,                \* TRUE iff a credential was resolved in __init__
    AI_AVAILABLE,           \* the openai import succeeded
    max_retries,            \* self.max_retries
    rate_limit_reset_time,  \* self.rate_limit_reset_time
    last_api_call_time,     \* self.last_api_call_time
    pc,                     \* where the running entry point stands
    entry,                  \* the running / last entry point
    queue,                  \* extract_batch: texts[i:], the current one first
    text,                   \* extract_from_text: the cleaned text
    case_referred,          \* extract_from_text: local case_referred
    judge_name,             \* extract_from_text: local judge_name
    req,                    \* the request that runs _chat_with_retry
    attempt,                \* _chat_with_retry: the loop index
    last_case_result,       \* _extract_from_pdf: local last_case_result
    result,                 \* the record returned for the last document
                            \* (None before it returns)
    n_results,              \* records the running / last entry point returned
    ops,                    \* entry-point calls made so far
    issued,                 \* the last remote call of the client
    docCalled,              \* a remote call was issued for the current document
    reqLog,                 \* the running / last _chat_with_retry invocation
    cascade,                \* extract_from_text: how far each field or group
                            \* of the running / last call got
    n_texts,                \* extract_batch: len(texts)
    batch_slept,            \* extract_batch: the sleep of line 456 after the
                            \* last record
    backoff,                \* the rate-limit waits computed in BackoffSpec
    fmt,                    \* FormatSpec: a decoded reply and its record
    pat,                    \* PatternSpec: what the patterns find in a text
                            \* and the record made of it
    lib,                    \* LibrarySpec: the pattern library and its last
                            \* call
    tier                    \* TierSpec: a PDF and the text extracted from it

config == <<api_key, AI_AVAILABLE, max_retries>>
locals == <<text, case_referred, judge_name, req, attempt>>
caller == <<entry, queue, last_case_result, result, n_results, n_texts,
            batch_slept>>
\* the variables of the other specifications
aside == <<backoff, fmt, pat, lib, tier>>
\* the variables of the client
client == <<api_key, AI_AVAILABLE, max_retries, rate_limit_reset_time,
            last_api_call_time, pc, entry, queue, text, case_referred,
            judge_name, req, attempt, last_case_result, result, n_results,
            ops, issued, docCalled, reqLog, cascade, n_texts, batch_slept>>
vars == <<client, aside>>

\* ------------------------------------------------------------------- time
\* The source only takes differences of timestamps (lines 85-86, 95-96,
\* 402-405), so a state keeps its timestamps relative to datetime.now():
\* now is the origin in every state, and when t ticks pass every stored
\* timestamp moves t ticks into the past.  A timestamp is None or <<t>>.
\* A deadline that has elapsed is kept at now, and a call time older than
\* min_delay_between_calls at that horizon: no comparison of the source
\* tells them from the exact values.
now == 0

Horizon == Seconds(min_delay_between_calls)

Rebase(ts, t, floor) ==
    IF ts = None THEN None
    ELSE <<IF ts[1] - t > floor THEN ts[1] - t ELSE floor>>

\* the remote call issued at time t under deadline dl, after the call iss:
\* when, how long after the previous call (up to Horizon), and whether the
\* stored deadline still lay in the future
call_at(iss, t, dl) ==
    [at |-> <<t>>,
     gap |-> IF iss.at = None THEN None
             ELSE <<Min(t - iss.at[1], Horizon)>>,
     early |-> dl # None /\ t < dl[1]]

\* t ticks pass: the RetryState and the last call as seen from the new now
Advance(dl, last, iss, t) ==
    /\ rate_limit_reset_time' = Rebase(dl, t, 0)
    /\ last_api_call_time' = Rebase(last, t, 0 - Horizon)
    /\ issued' = [iss EXCEPT !.at = Rebase(@, t, 0 - Horizon)]

\* A _chat_with_retry invocation: the request it serves, the remote calls
\* it issued, how many of them met a rate-limit error, the outcome of the
\* latest one, the reply it returned, the exception it raised to its
\* caller, and other_sleep: the time it slept apart from the wait_time
\* sleeps that follow its failed attempts.
NoRequest ==
    [kind |-> "none", calls |-> 0, other_sleep |-> 0, rate_limited |-> 0,
     last |-> "none", reply |-> "", raised |-> "none"]

NoBackoff == [prev |-> None, cur |-> None]

\* The fields and groups of extract_from_text, each with the state of its
\* remote attempt, and those whose pattern extraction has run.
Fields == {"referred", "judge", "main"}

NoCascade ==
    [remote |-> [f \in Fields |-> "NOT_ATTEMPTED"], pattern |-> {}]

\* lines 240-258: the remote attempt of the field f ended in status, and
\* the pattern extractor of f runs when it left no value
after_field(c, f, status) ==
    [remote |-> [c.remote EXCEPT ![f] = status],
     pattern |-> IF status = "REMOTE_SUCCEEDED" THEN c.pattern
                 ELSE c.pattern \cup {f}]

\* lines 273-279: the remote record is returned
after_ai_result(c) == [c EXCEPT !.remote["main"] = "REMOTE_SUCCEEDED"]

\* lines 285-289: the remote attempt of the main group ended in status and
\* _extract_with_regex runs the pattern extractors of lines 845-849, those
\* of judge and referred cases included
after_regex(c, status) ==
    [remote |-> [c.remote EXCEPT !["main"] = status],
     pattern |-> c.pattern \cup {"main", "judge", "referred"}]

Init ==
    /\ api_key \in BOOLEAN
    /\ AI_AVAILABLE \in BOOLEAN
    /\ max_retries \in 0..MaxRetries
    /\ rate_limit_reset_time = None
    /\ last_api_call_time = None
    /\ pc = "idle"
    /\ entry = "none"
    /\ queue = <<>>
    /\ text = <<>>
    /\ case_referred = <<>>
    /\ judge_name = "none"
    /\ req = "none"
    /\ attempt = 0
    /\ last_case_result = Null
    /\ result = None
    /\ n_results = 0
    /\ ops = 0
    /\ issued = [at |-> None, gap |-> None, early |-> FALSE]
    /\ docCalled = FALSE
    /\ reqLog = NoRequest
    /\ cascade = NoCascade
    /\ n_texts = 0
    /\ batch_slept = 0
    /\ backoff = NoBackoff
    /\ fmt = None
    /\ pat = None
    /\ lib = None
    /\ tier = None

\* A client at rest, with (ClientAtRest) or without a credential, for the
\* specifications of the operations that use no other client state.
ClientIdle(key) ==
    /\ api_key = key
    /\ AI_AVAILABLE = TRUE
    /\ max_retries = 0
    /\ rate_limit_reset_time = None
    /\ last_api_call_time = None
    /\ pc = "idle"
    /\ entry = "none"
    /\ queue = <<>>
    /\ text = <<>>
    /\ case_referred = <<>>
    /\ judge_name = "none"
    /\ req = "none"
    /\ attempt = 0
    /\ last_case_result = Null
    /\ result = None
    /\ n_results = 0
    /\ ops = 0
    /\ issued = [at |-> None, gap |-> None, early |-> FALSE]
    /\ docCalled = FALSE
    /\ reqLog = NoRequest
    /\ cascade = NoCascade
    /\ n_texts = 0
    /\ batch_slept = 0
    /\ backoff = NoBackoff

ClientAtRest == ClientIdle(TRUE)

\* ---------------------------------------------------- RetryState helpers
\* _wait_for_rate_limit_reset at time t under deadline dl: the time after
\* the sleep and the deadline it leaves
wait_for_rate_limit_reset(t, dl) ==
    IF dl # None /\ t < dl[1]
    THEN [now |-> dl[1], rate_limit_reset_time |-> None]
    ELSE [now |-> t, rate_limit_reset_time |-> dl]

\* enforce_min_delay without the tests of lines 94 and 96
enforce_min_delay_always(t, last) == Seconds(min_delay_between_calls)

\* _enforce_min_delay at time t: the sleep it takes
enforce_min_delay(t, last) ==
    IF last # None /\ t - last[1] < Seconds(min_delay_between_calls)
    THEN Seconds(min_delay_between_calls) - (t - last[1])
    ELSE 0

\* --------------------------------------------------- extract_from_text
\* lines 159-164
result_map ==
    << <<"dismissed", "Petition dismissed">>,
       <<"allowed", "Petition allowed">>,
       <<"disposed of", "Disposed of">>,
       <<"order accordingly", "Order accordingly">> >>

\* the keys of result_map that word.lower() contains, for the words of the
\* texts of this model (line 176: key in block_lower)
keys_in(word) ==
    CASE word = "Appeal allowed" -> {"allowed"}
      [] word = "Allowed, cross appeal dismissed." -> {"allowed", "dismissed"}
      [] word = "Disposed of" -> {"disposed of"}
      [] word = "Order accordingly" -> {"order accordingly"}
      [] OTHER -> {}

\* text.split('\n'), line 169
RECURSIVE split_lines(_)
split_lines(t) ==
    IF \A i \in DOMAIN t : t[i] # "\n" THEN <<t>>
    ELSE <<line_at(t, 1)>>
             \o split_lines(SubSeq(t, Len(line_at(t, 1)) + 2, Len(t)))

\* re.split(r'\n\s*\n|(?<=\.)\s*\n', text), line 167, over the lines ls
\* that are left, cur being the paragraph read so far: a paragraph ends at
\* a blank line and at the end of a line that ends in a full stop
RECURSIVE split_paragraphs(_, _)
split_paragraphs(ls, cur) ==
    LET done == IF cur = <<>> THEN <<>> ELSE <<cur>>
        stop == cur # <<>>
                /\ rstrip(cur)[Len(rstrip(cur))]
                       \in {".", "Heard.", "Allowed, cross appeal dismissed."}
    IN  IF ls = <<>> THEN done
        ELSE IF strip(Head(ls)) = <<>>
        THEN done \o split_paragraphs(Tail(ls), <<>>)
        ELSE IF stop THEN done \o split_paragraphs(Tail(ls), Head(ls))
        ELSE split_paragraphs(Tail(ls),
                              IF cur = <<>> THEN Head(ls)
                              ELSE cur \o <<"\n">> \o Head(ls))

\* lines 167 and 169: the paragraphs and the lines of the text, each
\* stripped, blank ones left out
stripped(blocks) ==
    LET kept == SelectSeq(blocks, LAMBDA b : strip(b) # <<>>)
    IN  [i \in DOMAIN kept |-> strip(kept[i])]

paragraphs(t) == stripped(split_paragraphs(split_lines(t), <<>>))

lines(t) == stripped(split_lines(t))

\* find_case_result searching the blocks from first to last
find_case_result_from_first(t) ==
    LET last5(blocks) ==
            IF Len(blocks) >= 5
            THEN SubSeq(blocks, Len(blocks) - 4, Len(blocks))
            ELSE blocks
        search_blocks == last5(paragraphs(t)) \o last5(lines(t))
        keys(b) == {k \in DOMAIN result_map :
                      \E j \in DOMAIN search_blocks[b] :
                         result_map[k][1] \in keys_in(search_blocks[b][j])}
        hits == {b \in DOMAIN search_blocks : keys(b) # {}}
    IN  IF hits = {} THEN Null
        ELSE LET b == CHOOSE x \in hits : \A y \in hits : x <= y
                 k == CHOOSE x \in keys(b) : \A y \in keys(b) : x <= y
             IN  result_map[k][2]

\* _extract_from_pdf, lines 171-180: the canonical phrase of the first key
\* of result_map held by the last of search_blocks that holds one, None
\* without such a block
find_case_result(t) ==
    LET last5(blocks) ==
            IF Len(blocks) >= 5
            THEN SubSeq(blocks, Len(blocks) - 4, Len(blocks))
            ELSE blocks
        search_blocks == last5(paragraphs(t)) \o last5(lines(t))
        keys(b) == {k \in DOMAIN result_map :
                      \E j \in DOMAIN search_blocks[b] :
                         result_map[k][1] \in keys_in(search_blocks[b][j])}
        hits == {b \in DOMAIN search_blocks : keys(b) # {}}
    IN  IF hits = {} THEN Null
        ELSE LET b == CHOOSE x \in hits : \A y \in hits : x >= y
                 k == CHOOSE x \in keys(b) : \A y \in keys(b) : x <= y
             IN  result_map[k][2]

\* _extract_with_regex followed by the two assignments of lines 286-287
regex_record(t, cr, jn) ==
    SetItem(SetItem(extract_with_regex(t), "caseReferred", cr),
            "judge_name", jn)

\* the remote record followed by the two assignments of lines 276-277
ai_record(ai_data, cr, jn) ==
    SetItem(SetItem(format_ai_result(ai_data), "caseReferred", cr),
            "judge_name", jn)

\* The record r for the text txt leaves extract_from_text at time t
\* (deadline dl, last call iss) and reaches the caller of entry point e:
\* _extract_from_pdf overwrites caseResult; extract_batch appends, sleeps
\* delay_between_requests and goes on with the next text.
\* extract_batch with the sleep of line 456 after every document
batch_delay_always(more) == Seconds(delay_between_requests)

\* extract_batch, lines 454-456: the sleep after a document, more telling
\* whether i < len(texts) - 1
batch_delay(more) == IF more THEN Seconds(delay_between_requests) ELSE 0

Deliver(e, q, n, txt, r, t, dl, iss) ==
    LET more == e = "batch" /\ Len(q) > 1
    IN  /\ result' = <<IF e = "pdf"
                      THEN [r EXCEPT !.caseResult =
                               IF last_case_result' # Null
                               THEN last_case_result' ELSE "none"]
                      ELSE r>>
        /\ n_results' = n + 1
        /\ entry' = e
        /\ text' = txt
        /\ case_referred' = <<>>
        /\ judge_name' = "none"
        /\ req' = "none"
        /\ attempt' = 0
        /\ pc' = IF more THEN "batch_next" ELSE "idle"
        /\ queue' = IF more THEN Tail(q) ELSE <<>>
        /\ batch_slept' = batch_delay(more)
        /\ Advance(dl, last_api_call_time, iss, t + batch_delay(more))

\* remote_enabled without the test of self.api_key
remote_enabled_without_key(use_ai) == use_ai /\ AI_AVAILABLE

\* the condition of lines 240, 251 and 261
remote_enabled(use_ai) == use_ai /\ api_key /\ AI_AVAILABLE

\* no_text without the test of text.strip()
no_text_unless_blank(txt) == txt = <<>>

\* the condition of line 229
no_text(txt) == txt = <<>> \/ strip(txt) = <<>>

\* extract_from_text(txt, use_ai) entered at time t, up to its first remote
\* request or, without one, to its return
Begin(e, q, n, txt, use_ai, t, dl) ==
    IF no_text(txt)
    THEN /\ cascade' = NoCascade
         /\ Deliver(e, q, n, txt,
                    create_error_result("No text content provided"),
                    t, dl, issued)
    ELSE LET cleaned == clean_text(txt)
         IN  IF remote_enabled(use_ai)
             THEN /\ pc' = "chat_enter"
                  /\ req' = "referred"
                  /\ text' = cleaned
                  /\ entry' = e
                  /\ queue' = q
                  /\ n_results' = n
                  /\ result' = None
                  /\ batch_slept' = 0
                  /\ cascade' = NoCascade
                  /\ case_referred' = <<>>
                  /\ judge_name' = "none"
                  /\ attempt' = 0
                  /\ Advance(dl, last_api_call_time, issued, t)
             ELSE /\ cascade' =
                        after_regex(
                            after_field(
                                after_field(NoCascade, "referred", "SKIPPED"),
                                "judge", "SKIPPED"),
                            "SKIPPED")
                  /\ Deliver(e, q, n, cleaned,
                             regex_record(cleaned,
                                          extract_case_referred(cleaned),
                                          extract_judge_regex(cleaned)),
                             t, dl, issued)

ExtractFromText ==
    /\ pc = "idle"
    /\ ops < MaxOps
    /\ \E txt \in Texts, use_ai \in BOOLEAN, idle \in 0..MaxIdleTicks :
          Begin("text", <<>>, 0, txt, use_ai, now + idle,
                rate_limit_reset_time)
    /\ last_case_result' = Null
    /\ n_texts' = 0
    /\ ops' = ops + 1
    /\ docCalled' = FALSE
    /\ reqLog' = NoRequest
    /\ UNCHANGED <<config, aside>>

\* ------------------------------------------------------ _chat_with_retry
\* lines 293-296: the bound, then _enforce_min_delay
ChatEnter ==
    /\ pc = "chat_enter"
    /\ LET sleep_time == enforce_min_delay(now, last_api_call_time)
       IN  /\ Advance(rate_limit_reset_time, <<now + sleep_time>>, issued,
                      now + sleep_time)
           /\ reqLog' = [NoRequest EXCEPT !.kind = req,
                                          !.other_sleep = sleep_time]
    /\ attempt' = 0
    /\ pc' = "chat_attempt"
    /\ UNCHANGED <<config, caller, text, case_referred, judge_name, req, ops,
                   docCalled, cascade, aside>>

\* the except clause of lines 318-363 that catches an exception of class cls
handler_of(cls) ==
    IF isinstance(cls, {"RateLimitError"}) THEN "rate_limit"
    ELSE IF isinstance(cls, {"APIError", "APITimeoutError"}) THEN "api_error"
    ELSE IF isinstance(cls, {"ConnectionError", "TimeoutError"}) THEN "timeout"
    ELSE "general"

\* retries with the bound tests of lines 332, 342, 352 and 360 off by one
retries_once_more(cls, att, bound) ==
    IF handler_of(cls) = "general"
    THEN ~(~should_retry_error(cls) \/ att = bound + 1)
    ELSE att <= bound

\* whether the clause sleeps and loops (TRUE) or raises (FALSE)
retries(cls, att, bound) ==
    IF handler_of(cls) = "general"
    THEN ~(~should_retry_error(cls) \/ att = bound)
    ELSE att < bound

\* wait_time of the clause, in seconds: the retry-after hint of a rate-limit
\* error when it carries one, the backoff otherwise
wait_time_of(cls, att, hint, jitter) ==
    IF handler_of(cls) = "rate_limit" /\ hint # None
    THEN hint[1]
    ELSE get_retry_delay(att, handler_of(cls), jitter)

\* _extract_referred_cases_with_ai, lines 1060-1087, given how the request
\* ended: the reply "none" holds no JSON array
referred_cases_of(outcome, reply) ==
    IF outcome = "ok" /\ reply = "full" THEN ReferredReply ELSE <<>>

\* _extract_judge_name_with_ai, lines 1109-1116
judge_name_of(outcome, reply) ==
    IF outcome = "ok" /\ reply = "full" THEN JudgeReply ELSE "none"

\* main_record_of with a failed remote extraction reported as an error
main_record_of_failing(outcome, reply, t, cr, jn) ==
    IF outcome = "ok" /\ reply = "full" THEN ai_record(FullReply, cr, jn)
    ELSE create_error_result("AI extraction failed")

\* main_record_of with a reply without a JSON object taken for an empty one
main_record_of_unparsed(outcome, reply, t, cr, jn) ==
    IF outcome = "ok"
    THEN ai_record(IF reply = "full" THEN FullReply ELSE EmptyObjectReply,
                   cr, jn)
    ELSE regex_record(t, cr, jn)

\* extract_from_text after _extract_with_openai, lines 273-289: the reply
\* "none" holds no JSON object
main_record_of(outcome, reply, t, cr, jn) ==
    IF outcome = "ok" /\ reply = "full" THEN ai_record(FullReply, cr, jn)
    ELSE regex_record(t, cr, jn)

\* lines 242-247, 253-258 and 273-285: the state of the remote attempt that
\* returned value, where empty is the value of a failed attempt
remote_status(value, empty) ==
    IF value = empty THEN "REMOTE_FAILED" ELSE "REMOTE_SUCCEEDED"

\* The request req ended at time t (outcome "ok": the reply was returned,
\* otherwise the exception reached the caller's except clause); dl is the
\* deadline and iss the last call at that time.
EndRequest(outcome, reply, t, dl, iss) ==
    IF req = "referred"
    THEN /\ case_referred' =
                LET cases == referred_cases_of(outcome, reply)
                IN  IF cases # <<>> THEN cases ELSE extract_case_referred(text)
         /\ cascade' =
                after_field(cascade, "referred",
                            remote_status(referred_cases_of(outcome, reply),
                                          <<>>))
         /\ pc' = "chat_enter"
         /\ req' = "judge"
         /\ Advance(dl, last_api_call_time, iss, t)
         /\ UNCHANGED <<text, judge_name, attempt, caller>>
    ELSE IF req = "judge"
    THEN LET w == wait_for_rate_limit_reset(t, dl)
             name == judge_name_of(outcome, reply)
         IN  /\ judge_name' = IF name = "" \/ name = "none"
                              THEN extract_judge_regex(text) ELSE name
             /\ cascade' = after_field(cascade, "judge",
                                       remote_status(name, "none"))
             /\ pc' = "probe"
             /\ Advance(w.rate_limit_reset_time, last_api_call_time, iss,
                        w.now)
             /\ UNCHANGED <<text, case_referred, req, attempt, caller>>
    ELSE /\ last_case_result' = last_case_result
         /\ n_texts' = n_texts
         /\ cascade' = IF outcome = "ok" /\ reply = "full"
                       THEN after_ai_result(cascade)
                       ELSE after_regex(cascade, "REMOTE_FAILED")
         /\ Deliver(entry, queue, n_results, text,
                    main_record_of(outcome, reply, text, case_referred,
                                   judge_name), t, dl, iss)

Outcomes == {"ok"} \cup ErrorClasses
Hints == {None, <<RetryAfterSeconds>>}

\* one pass of the loop of lines 298-363: the remote call and what follows
ChatAttempt ==
    /\ pc = "chat_attempt"
    /\ \E outcome \in Outcomes, reply \in Replies, hint \in Hints,
          jitter \in JitterDraws, d \in 0..MaxCallTicks :
        /\ outcome = "ok" \/ reply = "full"
        /\ outcome = "RateLimitError" \/ hint = None
        /\ (outcome # "ok" /\ hint = None) \/ jitter = JitterLo
        /\ LET t1 == now + d
               wait_time == wait_time_of(outcome, attempt, hint, jitter)
               dl == IF outcome # "ok" /\ handler_of(outcome) = "rate_limit"
                     THEN <<t1 + Seconds(wait_time)>>
                     ELSE rate_limit_reset_time
               iss == call_at(issued, now, rate_limit_reset_time)
               log == [reqLog EXCEPT
                          !.calls = @ + 1, !.last = outcome,
                          !.rate_limited =
                              IF outcome = "RateLimitError" THEN @ + 1 ELSE @]
           IN  /\ docCalled' = TRUE
               /\ IF outcome = "ok"
                  THEN /\ reqLog' = [log EXCEPT !.reply = reply]
                       /\ EndRequest(outcome, reply, t1, dl, iss)
                  ELSE IF retries(outcome, attempt, max_retries)
                  THEN /\ attempt' = attempt + 1
                       /\ Advance(dl, last_api_call_time, iss,
                                  t1 + Seconds(wait_time))
                       /\ reqLog' = log
                       /\ UNCHANGED <<pc, caller, text, case_referred,
                                      judge_name, req, cascade>>
                  ELSE /\ reqLog' = [log EXCEPT !.raised = outcome]
                       /\ EndRequest(outcome, reply, t1, dl, iss)
    /\ UNCHANGED <<config, ops, aside>>

\* ------------------------------------------------------- check_api_status
\* lines 398-437, called at time t: the status, whether the probe was sent,
\* the time of return and the deadline left.  Without a credential the
\* constructor of line 409 raises and line 433 answers.
check_api_status(t, outcome, hint, d) ==
    IF rate_limit_reset_time # None /\ t < rate_limit_reset_time[1]
    THEN [status |-> "rate_limited", called |-> FALSE, now |-> t,
          rate_limit_reset_time |-> rate_limit_reset_time]
    ELSE IF ~api_key
    THEN [status |-> "error", called |-> FALSE, now |-> t,
          rate_limit_reset_time |-> rate_limit_reset_time]
    ELSE [status |-> IF outcome = "ok" THEN "available"
                     ELSE IF isinstance(outcome, {"RateLimitError"})
                          THEN "rate_limited" ELSE "error",
          called |-> TRUE, now |-> t + d,
          rate_limit_reset_time |->
             IF outcome # "ok" /\ isinstance(outcome, {"RateLimitError"})
                /\ hint # None
             THEN <<t + d + Seconds(hint[1])>>
             ELSE rate_limit_reset_time]

\* extract_from_text, lines 266-273: the probe and the branch on its status
Probe ==
    /\ pc = "probe"
    /\ \E outcome \in Outcomes, hint \in Hints, d \in 0..MaxCallTicks :
        /\ outcome = "RateLimitError" \/ hint = None
        /\ LET st == check_api_status(now, outcome, hint, d)
               iss == IF st.called
                      THEN call_at(issued, now, rate_limit_reset_time)
                      ELSE issued
           IN  /\ docCalled' = (docCalled \/ st.called)
               /\ IF st.status = "rate_limited"
                  THEN /\ last_case_result' = last_case_result
                       /\ n_texts' = n_texts
                       /\ cascade' = after_regex(cascade, "SKIPPED")
                       /\ Deliver(entry, queue, n_results, text,
                                  regex_record(text, case_referred, judge_name),
                                  st.now, st.rate_limit_reset_time, iss)
                  ELSE /\ pc' = "chat_enter"
                       /\ req' = "main"
                       /\ Advance(st.rate_limit_reset_time, last_api_call_time,
                                  iss, st.now)
                       /\ UNCHANGED <<text, case_referred, judge_name, attempt,
                                      caller, cascade>>
    /\ UNCHANGED <<config, ops, reqLog, aside>>

\* check_api_status called by the user of the client (--check-api).  Without
\* the openai import the call raises NameError and changes nothing.
CheckApiStatus ==
    /\ pc = "idle"
    /\ ops < MaxOps
    /\ AI_AVAILABLE
    /\ \E outcome \in Outcomes, hint \in Hints, d \in 0..MaxCallTicks,
          idle \in 0..MaxIdleTicks :
        /\ outcome = "RateLimitError" \/ hint = None
        /\ LET st == check_api_status(now + idle, outcome, hint, d)
               iss == IF st.called
                      THEN call_at(issued, now + idle, rate_limit_reset_time)
                      ELSE issued
           IN  Advance(st.rate_limit_reset_time, last_api_call_time, iss,
                       st.now)
    /\ ops' = ops + 1
    /\ entry' = "status"
    /\ n_results' = 0
    /\ reqLog' = NoRequest
    /\ docCalled' = FALSE
    /\ UNCHANGED <<config, pc, queue, locals, last_case_result, result,
                   n_texts, batch_slept, cascade, aside>>

\* ------------------------------------------------------ extract_from_file
\* A document on disk: whether the path exists, its extension, whether
\* opening / decoding it succeeds, the native text layer of each page of a
\* PDF, and the content of a text file or the OCR text of an image.
PageTexts == {<<>>, <<"a">>}

Documents ==
    [exists : {FALSE}, ext : {"txt"}, opens : {FALSE}, pages : {<<>>},
     content : {<<>>}]
    \cup [exists : {TRUE}, ext : {"pdf"}, opens : BOOLEAN,
          pages : SeqsUpTo(PageTexts, MaxPages), content : {<<>>}]
    \cup [exists : {TRUE}, ext : {"png"}, opens : BOOLEAN, pages : {<<>>},
          content : PageTexts]
    \cup [exists : {TRUE}, ext : {"txt"}, opens : BOOLEAN, pages : {<<>>},
          content : Texts]

\* lines 133-151 without OCR: text += page_text + "\n" for every page
RECURSIVE pdf_text(_)
pdf_text(pages) ==
    IF pages = <<>> THEN <<>>
    ELSE Head(pages) \o <<"\n">> \o pdf_text(Tail(pages))

\* Text acquisition of extract_from_file, _extract_from_pdf and
\* _extract_from_image: the text handed to extract_from_text, or the message
\* of the error record returned instead.  PDF_AVAILABLE and OCR_AVAILABLE
\* are the module flags of lines 32-45, which no code changes; they are
\* drawn with the document.  A page without native text sends
\* _extract_from_pdf to line 147, which uses the module io that the file
\* never imports: the NameError is caught at line 194.
acquire(doc, PDF_AVAILABLE, OCR_AVAILABLE) ==
    LET fail(msg) == [ok |-> FALSE, text |-> <<>>, error |-> msg]
        pass(t) == [ok |-> TRUE, text |-> t, error |-> ""]
    IN  IF ~doc.exists THEN fail("File not found")
        ELSE IF doc.ext = "pdf"
        THEN IF ~PDF_AVAILABLE
             THEN fail("PDF processing not available - install PyMuPDF")
             ELSE IF ~doc.opens THEN fail("PDF extraction failed")
             ELSE IF OCR_AVAILABLE
                     /\ \E i \in 1..Len(doc.pages) : strip(doc.pages[i]) = <<>>
             THEN fail("PDF extraction failed")
             ELSE IF strip(pdf_text(doc.pages)) = <<>>
             THEN fail("No text content found in PDF")
             ELSE pass(pdf_text(doc.pages))
        ELSE IF doc.ext = "png"
        THEN IF ~OCR_AVAILABLE
             THEN fail("OCR not available - install pytesseract and PIL")
             ELSE IF ~doc.opens THEN fail("Image OCR failed")
             ELSE IF strip(doc.content) = <<>>
             THEN fail("No text found in image")
             ELSE pass(doc.content)
        ELSE IF ~doc.opens THEN fail("File extraction failed")
             ELSE pass(doc.content)

ExtractFromFile ==
    /\ pc = "idle"
    /\ ops < MaxOps
    /\ \E doc \in Documents, pdf_available \in BOOLEAN,
          ocr_available \in BOOLEAN, idle \in 0..MaxIdleTicks :
          LET a == acquire(doc, pdf_available, ocr_available)
          IN  IF a.ok
              THEN /\ last_case_result' =
                        IF doc.ext = "pdf" THEN find_case_result(a.text)
                        ELSE Null
                   /\ Begin(IF doc.ext = "pdf" THEN "pdf" ELSE "text",
                            <<>>, 0, a.text, TRUE, now + idle,
                            rate_limit_reset_time)
              ELSE /\ last_case_result' = Null
                   /\ cascade' = NoCascade
                   /\ Deliver("file", <<>>, 0, <<>>,
                              create_error_result(a.error),
                              now + idle, rate_limit_reset_time, issued)
    /\ n_texts' = 0
    /\ ops' = ops + 1
    /\ docCalled' = FALSE
    /\ reqLog' = NoRequest
    /\ UNCHANGED <<config, aside>>

\* ---------------------------------------------------------- extract_batch
\* lines 439-463.  extract_from_text raises nothing, so the except clause
\* of line 458 is never entered.
BatchTexts == {<<>>, <<" ">>, <<"a">>}
BatchInputs == SeqsUpTo(BatchTexts, MaxDocs)

\* the first text of the batch, up to the first remote request
ExtractBatch ==
    /\ pc = "idle"
    /\ ops < MaxOps
    /\ \E texts \in BatchInputs, idle \in 0..MaxIdleTicks :
          IF texts = <<>>
          THEN /\ n_results' = 0
               /\ entry' = "batch"
               /\ Advance(rate_limit_reset_time, last_api_call_time, issued,
                          now + idle)
               /\ n_texts' = 0
               /\ batch_slept' = 0
               /\ UNCHANGED <<pc, queue, locals, result, cascade>>
          ELSE LET w == wait_for_rate_limit_reset(now + idle,
                                                  rate_limit_reset_time)
               IN  /\ n_texts' = Len(texts)
                   /\ Begin("batch", texts, 0, Head(texts), TRUE, w.now,
                            w.rate_limit_reset_time)
    /\ last_case_result' = Null
    /\ ops' = ops + 1
    /\ docCalled' = FALSE
    /\ reqLog' = NoRequest
    /\ UNCHANGED <<config, aside>>

\* the next text of the batch, after the sleep of line 456
BatchNext ==
    /\ pc = "batch_next"
    /\ LET w == wait_for_rate_limit_reset(now, rate_limit_reset_time)
       IN  Begin("batch", queue, n_results, Head(queue), TRUE, w.now,
                 w.rate_limit_reset_time)
    /\ docCalled' = FALSE
    /\ reqLog' = NoRequest
    /\ UNCHANGED <<config, ops, last_case_result, n_texts, aside>>

Next ==
    \/ ExtractFromText
    \/ ExtractFromFile
    \/ ExtractBatch
    \/ BatchNext
    \/ CheckApiStatus
    \/ ChatEnter
    \/ ChatAttempt
    \/ Probe

Spec == Init /\ [][Next]_vars

\* ------------------------------------------------------------- FormatSpec
\* _format_ai_result on the JSON objects a reply can hold: each key of
\* ReplyKeys is omitted, or carries a value, or carries JSON null where the
\* value is a string (a key present with null is in the dict with the value
\* None, which dict.get returns).  year is the calendar year in which the
\* reply is formatted.
ReplyKeys ==
    {"appellants", "judge_name", "case_number", "case_result", "notes",
     "decided_date", "court_name"}

CompleteReplies ==
    [appellants : {<<>>, <<"Ankush Shikshan Sanstha">>},
     judge_name : {<<"none">>, <<"Nivedita P. Mehta", "M.W. Chandwani">>},
     case_number : {Null, "2134"},
     case_result : {Null, "Petition dismissed"},
     notes : {Null, "Remanded"},
     decided_date : {Null, "2023-01-15", "15th January 2023"},
     court_name : {Null, "", "District Court, Pune",
                   "High Court of Judicature at Bombay",
                   "High Court of Judicature at Bombay, Bench at Aurangabad",
                   "Supreme Court of India"}]

DecodedReplies ==
    {[k \in keys |-> d[k]] : d \in CompleteReplies, keys \in SUBSET ReplyKeys}

FormatInit ==
    /\ ClientAtRest
    /\ fmt \in [ai_data : DecodedReplies, record : {None},
                 year : {2025, 2026}]
    /\ pat = None
    /\ lib = None
    /\ tier = None

\* line 500: formatted_result = self._format_ai_result(ai_data)
FormatAiResult ==
    /\ fmt.record = None
    /\ fmt' = [fmt EXCEPT !.record = <<format_ai_result(fmt.ai_data)>>]
    /\ UNCHANGED <<client, backoff, pat, lib, tier>>

FormatSpec == FormatInit /\ [][FormatAiResult]_vars

\* ------------------------------------------------------------ PatternSpec
\* extract_from_text without remote extraction (no credential, or use_ai
\* false) on the texts in which any of the patterns may match.
Found ==
    [appellant : [1..6 -> {None, <<"Ankush Shikshan Sanstha ">>}],
     respondent : [1..4 -> {None, <<"Nagpur University ">>}],
     judge : [1..3 -> {None, <<"Justice Nivedita P. Mehta">>}],
     case_info : [1..3 -> {None, <<"Writ Petition No. 2134/2022">>}],
     case_referred :
        {<<>>,
         <<<<"Union of India vs Tarsem Singh", "2008) 8 SCC 648">>>>,
         <<<<"Union of India vs Tarsem Singh", "2008) 8 SCC 648">>,
           <<"UNION OF INDIA VS TARSEM SINGH", "2008) 8 SCC 648">>>>}]

PatternInit ==
    /\ ClientAtRest
    /\ fmt = None
    /\ pat \in [found : Found, record : {None}]
    /\ lib = None
    /\ tier = None

\* lines 239-258 with the remote branches skipped, then lines 285-289
ExtractWithoutRemote ==
    /\ pat.record = None
    /\ LET case_referred_ == case_referred_regex(pat.found)
           judge_name_ == judge_regex(pat.found)
       IN  pat' = [pat EXCEPT !.record =
                      <<SetItem(SetItem(with_regex(pat.found),
                                        "caseReferred", case_referred_),
                                "judge_name", judge_name_)>>]
    /\ UNCHANGED <<client, backoff, fmt, lib, tier>>

PatternSpec == PatternInit /\ [][ExtractWithoutRemote]_vars

\* ------------------------------------------------------------ LibrarySpec
\* The pattern library of scripts/dynamic_metadata_extractor.py.  Two of the
\* built-in fields of _initialize_patterns are kept: judge (lines 86-97) and
\* petitioner (lines 115-124).
BuiltIn ==
    [judge |-> <<"JUSTICE\\s+([A-Z\\s]+)",
                 "HON\\'BLE\\s+JUSTICE\\s+([A-Z\\s]+)",
                 "MR\\.\\s+JUSTICE\\s+([A-Z\\s]+)",
                 "MRS\\.\\s+JUSTICE\\s+([A-Z\\s]+)",
                 "JUDGE\\s+([A-Z\\s]+)",
                 "MAGISTRATE\\s+([A-Z\\s]+)">>,
     petitioner |-> <<"Petitioner\\s*:\\s*([^\\n]+)",
                      "Appellant\\s*:\\s*([^\\n]+)",
                      "Plaintiff\\s*:\\s*([^\\n]+)">>]

\* the field names and pattern lists given to the library's operations
FieldNames == {"judge", "Case Title", "case_title"}

CustomPatterns ==
    {<<"Title\\s*:\\s*([^\\n]+)">>,
     <<"Title\\s*:\\s*([^\\n]+)", "CORAM\\s*:\\s*([^\\n]+)">>}

\* field.lower().replace(' ', '_'), line 164, on FieldNames
normalize(field) ==
    CASE field = "Case Title" -> "case_title"
      [] OTHER -> field

\* A text is given by the patterns that match in it and by what
\* _extract_dynamically finds in it (None for "Not found").
LibraryTexts ==
    [matching : SUBSET {"JUSTICE\\s+([A-Z\\s]+)", "Title\\s*:\\s*([^\\n]+)",
                        "CORAM\\s*:\\s*([^\\n]+)"},
     dynamic : {None, <<{"of the suit property"}>>}]

\* re.findall(regex_pattern, text), line 178, in a text the pattern matches
findall(regex_pattern) ==
    CASE regex_pattern = "JUSTICE\\s+([A-Z\\s]+)" -> {"A S CHANDURKAR"}
      [] regex_pattern = "Title\\s*:\\s*([^\\n]+)" -> {"State vs Ramesh"}
      [] regex_pattern = "CORAM\\s*:\\s*([^\\n]+)" ->
            {"A S CHANDURKAR", "M W CHANDWANI"}
      [] OTHER -> {"x"}

Range(s) == {s[i] : i \in DOMAIN s}

\* _extract_with_pattern, lines 173-189: the set joined at line 186 (the
\* order of the join is that of set(results)), or None for "Not found"
extract_with_pattern(txt, patterns) ==
    LET results == UNION {findall(p) : p \in Range(patterns) \cap txt.matching}
    IN  IF results # {} THEN <<results>> ELSE None

\* extract_metadata, lines 162-171: the pattern list used (None for
\* _extract_dynamically) and the result
extract_metadata(patterns, txt, field) ==
    LET f == normalize(field)
    IN  IF f \in DOMAIN patterns
        THEN [used |-> <<patterns[f]>>,
              out |-> extract_with_pattern(txt, patterns[f])]
        ELSE [used |-> None, out |-> txt.dynamic]

\* add_custom_pattern, lines 305-313
add_custom_pattern(patterns, field_name, custom) ==
    SetItem(patterns, field_name, custom)

NoCall == [op |-> "none", field |-> "", used |-> <<>>, out |-> <<>>]

LibraryInit ==
    /\ ClientAtRest
    /\ fmt = None
    /\ pat = None
    /\ lib = [patterns |-> BuiltIn, added |-> <<>>, calls |-> 0,
              last |-> NoCall]
    /\ tier = None

\* added: the custom patterns given for each field name so far, in order
AddCustomPattern ==
    /\ lib.calls < MaxCalls
    /\ \E field_name \in FieldNames, custom \in CustomPatterns :
          lib' = [patterns |->
                      add_custom_pattern(lib.patterns, field_name, custom),
                  added |->
                      SetItem(lib.added, field_name,
                              get(lib.added, field_name, <<>>) \o custom),
                  calls |-> lib.calls + 1,
                  last |-> [NoCall EXCEPT !.op = "add_custom_pattern",
                                          !.field = field_name]]
    /\ UNCHANGED <<client, backoff, fmt, pat, tier>>

ExtractMetadata ==
    /\ lib.calls < MaxCalls
    /\ \E txt \in LibraryTexts, field \in FieldNames :
          LET r == extract_metadata(lib.patterns, txt, field)
          IN  lib' = [lib EXCEPT
                         !.calls = @ + 1,
                         !.last = [op |-> "extract_metadata", field |-> field,
                                   used |-> SetItem(<<>>, field, r.used),
                                   out |-> SetItem(<<>>, field, r.out)]]
    /\ UNCHANGED <<client, backoff, fmt, pat, tier>>

\* extract_all_fields, lines 296-303
ExtractAllFields ==
    /\ lib.calls < MaxCalls
    /\ \E txt \in LibraryTexts :
          lib' = [lib EXCEPT
                     !.calls = @ + 1,
                     !.last = [op |-> "extract_all_fields", field |-> "",
                               used |-> [f \in DOMAIN lib.patterns |->
                                            <<lib.patterns[f]>>],
                               out |-> [f \in DOMAIN lib.patterns |->
                                           extract_with_pattern(
                                               txt, lib.patterns[f])]]]
    /\ UNCHANGED <<client, backoff, fmt, pat, tier>>

LibrarySpec ==
    LibraryInit
    /\ [][AddCustomPattern \/ ExtractMetadata \/ ExtractAllFields]_vars

\* --------------------------------------------------------------- TierSpec
\* The PDF text tiers of scripts/metadata_extractor.py and api_server.py.
\* A PDF is given by what each library makes of it: it yields the text of
\* every page (empty where page.extract_text returns None or ''), or it
\* raises after the pages read so far (none when opening the file raises).
TierPageTexts == {<<>>, <<" ">>, <<"a">>}

TierOutcomes ==
    [raises : {TRUE}, pages : SeqsUpTo(TierPageTexts, MaxPdfPages - 1)]
    \cup [raises : {FALSE}, pages : SeqsUpTo(TierPageTexts, MaxPdfPages)]

\* extract_text_from_pdf, lines 460-472: full_text += page.get_text()
RECURSIVE native_text(_)
native_text(pages) ==
    IF pages = <<>> THEN <<>>
    ELSE Head(pages) \o native_text(Tail(pages))

extract_text_from_pdf(o) ==
    IF o.raises THEN <<>> ELSE native_text(o.pages)

\* extract_text_from_pdf_with_pdfplumber, lines 474-488: a page with text
\* adds text + "\n\n"
RECURSIVE layout_text(_)
layout_text(pages) ==
    IF pages = <<>> THEN <<>>
    ELSE (IF Head(pages) # <<>> THEN Head(pages) \o <<"\n", "\n">>
          ELSE <<>>) \o layout_text(Tail(pages))

extract_text_from_pdf_with_pdfplumber(o) ==
    IF o.raises THEN <<>> ELSE layout_text(o.pages)

\* extract_text_from_pdf_with_ocr, lines 490-503: every page adds
\* text + "\n\n"
RECURSIVE ocr_text(_)
ocr_text(pages) ==
    IF pages = <<>> THEN <<>>
    ELSE Head(pages) \o <<"\n", "\n">> \o ocr_text(Tail(pages))

extract_text_from_pdf_with_ocr(o) ==
    IF o.raises THEN <<>> ELSE ocr_text(o.pages)

\* extract_text_from_file with the tests "if not text" for "if not
\* text.strip()"
extract_text_from_file_untrimmed(pdf) ==
    LET r1 == [ran |-> <<"native">>,
               text |-> extract_text_from_pdf(pdf.native)]
        r2 == IF r1.text = <<>>
              THEN [ran |-> Append(r1.ran, "layout"),
                    text |-> extract_text_from_pdf_with_pdfplumber(pdf.layout)]
              ELSE r1
    IN  IF r2.text = <<>>
        THEN [ran |-> Append(r2.ran, "ocr"),
              text |-> extract_text_from_pdf_with_ocr(pdf.ocr)]
        ELSE r2

\* extract_text_from_file, api_server.py lines 51-62, and the same cascade
\* in extract_all_metadata, lines 505-515: the tiers that ran, in order, and
\* the text handed on
extract_text_from_file(pdf) ==
    LET r1 == [ran |-> <<"native">>,
               text |-> extract_text_from_pdf(pdf.native)]
        r2 == IF strip(r1.text) = <<>>
              THEN [ran |-> Append(r1.ran, "layout"),
                    text |-> extract_text_from_pdf_with_pdfplumber(pdf.layout)]
              ELSE r1
    IN  IF strip(r2.text) = <<>>
        THEN [ran |-> Append(r2.ran, "ocr"),
              text |-> extract_text_from_pdf_with_ocr(pdf.ocr)]
        ELSE r2

TierInit ==
    /\ ClientAtRest
    /\ fmt = None
    /\ pat = None
    /\ lib = None
    /\ tier \in [pdf : [native : TierOutcomes, layout : TierOutcomes,
                        ocr : TierOutcomes],
                 out : {None}]

ExtractTextFromFile ==
    /\ tier.out = None
    /\ tier' = [tier EXCEPT !.out = <<extract_text_from_file(tier.pdf)>>]
    /\ UNCHANGED <<client, backoff, fmt, pat, lib>>

TierSpec == TierInit /\ [][ExtractTextFromFile]_vars

\* ----------------------------------------------------------- EnhancedSpec
\* extract_legal_metadata of scripts/enhanced_extractor.py on the parties
\* and advocates.  A text is given by the candidates its patterns capture
\* for each field, in pattern order and after the clean-up substitutions,
\* and by whether an extractor that runs between the parties and the
\* advocates raises.  valid_name is the outcome of the word and capital
\* letter tests of lines 230-233 and 448-450, legal_term that of line 178.
valid_name(name) == name \notin {"The Petitioner", "Counsel for the State"}

legal_term(name) == name = "Shri Rectify His Order"

\* the loops of lines 221-235 and 435-453: the first candidate of a length
\* in lo..hi that passes the other tests, or None
RECURSIVE first_valid(_, _, _)
first_valid(candidates, lo, hi) ==
    IF candidates = <<>> THEN None
    ELSE IF Len(Head(candidates)) \in lo..hi /\ valid_name(Head(candidates))
    THEN <<Head(candidates)>>
    ELSE first_valid(Tail(candidates), lo, hi)

\* clean_extraction_result without the test of the legal terms
clean_extraction_result_by_length(r) ==
    [r EXCEPT !.appellant = IF Len(@) > 100 THEN "Appellant" ELSE @,
              !.respondent = IF Len(@) > 100 THEN "Respondents" ELSE @,
              !.doubleCouncilDetailRequest =
                  [f \in DOMAIN @ |-> IF Len(@[f]) > 50 THEN "none" ELSE @[f]]]

\* clean_extraction_result, lines 154-181
clean_extraction_result(r) ==
    [r EXCEPT !.appellant = IF Len(@) > 100 THEN "Appellant" ELSE @,
              !.respondent = IF Len(@) > 100 THEN "Respondents" ELSE @,
              !.doubleCouncilDetailRequest =
                  [f \in DOMAIN @ |->
                      IF Len(@[f]) > 50 THEN "none"
                      ELSE IF @[f] # "none" /\ legal_term(@[f]) THEN "none"
                      ELSE @[f]]]

\* extract_legal_metadata, lines 19-152, on the four fields
extract_legal_metadata(found) ==
    LET or(match, default) == IF match # None THEN match[1] ELSE default
        parties ==
            [appellant |-> or(first_valid(found.appellant, 4, 99),
                              "Appellant"),
             respondent |-> or(first_valid(found.respondent, 4, 99),
                               "Respondents"),
             doubleCouncilDetailRequest |->
                [advocateForAppellant |-> "none",
                 advocateForRespondent |-> "none"]]
    IN  IF found.raises THEN parties
        ELSE clean_extraction_result(
                 [parties EXCEPT
                     !.doubleCouncilDetailRequest =
                        [advocateForAppellant |->
                            or(first_valid(found.advocate_appellant, 3, 50),
                               "none"),
                         advocateForRespondent |->
                            or(first_valid(found.advocate_respondent, 3, 50),
                               "none")]])

EnhancedInit ==
    /\ ClientAtRest
    /\ fmt = None
    /\ pat \in
         [found :
             LET parties ==
                     SeqsUpTo({"Abccccccccccccccccccccccccccccccccccccccccccccccccccccccccccccccccccccccccccccccccccccccccccccccccc",
                               "Abccccccccccccccccccccccccccccccccccccccccccccccccccccccccccccccccccccccccccccccccccccccccccccccccccc",
                               "The Petitioner"}, MaxCandidates)
                 advocates ==
                     SeqsUpTo({"Abcccccccccccccccccccccccccccccccccccccccccccccccc",
                               "Shri Rectify His Order",
                               "Counsel for the State"}, MaxCandidates)
             IN  [appellant : parties, respondent : parties,
                  advocate_appellant : advocates,
                  advocate_respondent : advocates, raises : BOOLEAN],
          record : {None}]
    /\ lib = None
    /\ tier = None

ExtractLegalMetadata ==
    /\ pat.record = None
    /\ pat' = [pat EXCEPT !.record = <<extract_legal_metadata(pat.found)>>]
    /\ UNCHANGED <<client, backoff, fmt, lib, tier>>

EnhancedSpec == EnhancedInit /\ [][ExtractLegalMetadata]_vars

\* ------------------------------------------------------------ BackoffSpec
\* One _chat_with_retry invocation whose every attempt meets a rate-limit
\* error without a retry-after hint: line 327 computes a wait for each
\* attempt, the last one included.  The client is configured with any
\* max_retries up to MaxBackoffRetries and the jitter of line 395 is any
\* hundredth of [0.8, 1.2].
Jitters == JitterLo..JitterHi

BackoffInit ==
    /\ api_key = TRUE
    /\ AI_AVAILABLE = TRUE
    /\ max_retries \in 0..MaxBackoffRetries
    /\ rate_limit_reset_time = None
    /\ last_api_call_time = None
    /\ pc = "chat_attempt"
    /\ entry = "text"
    /\ queue = <<>>
    /\ text = <<"a">>
    /\ case_referred = <<>>
    /\ judge_name = "none"
    /\ req = "referred"
    /\ attempt = 0
    /\ last_case_result = Null
    /\ result = None
    /\ n_results = 0
    /\ ops = 1
    /\ issued = [at |-> None, gap |-> None, early |-> FALSE]
    /\ docCalled = FALSE
    /\ reqLog = [NoRequest EXCEPT !.kind = "referred"]
    /\ cascade = NoCascade
    /\ n_texts = 0
    /\ batch_slept = 0
    /\ backoff = NoBackoff
    /\ fmt = None
    /\ pat = None
    /\ lib = None
    /\ tier = None

RateLimited ==
    /\ pc = "chat_attempt"
    /\ \E jitter \in Jitters :
          backoff' = [prev |-> backoff.cur,
                      cur |-> <<wait_time_of("RateLimitError", attempt, None,
                                             jitter)>>]
    /\ IF retries("RateLimitError", attempt, max_retries)
       THEN attempt' = attempt + 1 /\ pc' = pc
       ELSE attempt' = attempt /\ pc' = "idle"
    /\ UNCHANGED <<config, rate_limit_reset_time, last_api_call_time, caller,
                   text, case_referred, judge_name, req, ops, issued,
                   docCalled, reqLog, cascade, fmt, pat, lib, tier>>

BackoffSpec == BackoffInit /\ [][RateLimited]_vars

\* ----------------------------------------------------------------- claims
\* the record of the last document, once returned
returned == result # None

\* C1: every returned record, whatever path produced it, has one fixed key
\* set: the key set of the error-path record, which holds caseReferred,
\* success, error and extraction_method.
C1_SameFixedKeySet ==
    returned =>
        /\ {"caseReferred", "success", "error", "extraction_method"}
               \subseteq DOMAIN result[1]
        /\ DOMAIN result[1] = DOMAIN create_error_result("")

\* C2: a record returned for a text with content has success = true and no
\* error, whatever the remote requests and the status probe did; a record
\* with success = false is returned only when no text was acquired.  (A
\* whitespace-only text counts as no text, as line 229 has it.)
C2_RemoteFailuresAbsorbed ==
    returned =>
        /\ ~no_text(text) =>
              /\ result[1].success = TRUE
              /\ "error" \notin DOMAIN result[1]
        /\ result[1].success = FALSE => no_text(text)

\* a record returned after the main extraction request raised
C2_Witness ==
    /\ returned
    /\ ~no_text(text)
    /\ docCalled
    /\ reqLog.kind = "main"
    /\ reqLog.raised = "RateLimitError"
    /\ result[1].success = TRUE

\* C3: every call of an entry point ends with a record; when no text was
\* acquired the record has success = false and an error message, and no
\* remote call was issued for the document.
C3_AcquisitionFailureIsARecord ==
    /\ pc = "idle" /\ entry \in {"text", "pdf", "file"} => returned
    /\ returned /\ no_text(text) =>
          /\ result[1].success = FALSE
          /\ "error" \in DOMAIN result[1]
          /\ result[1].error # ""
          /\ ~docCalled

\* a client able to call the service returns the error record for a file
\* that yields no text
C3_Witness ==
    /\ returned
    /\ entry = "file"
    /\ api_key /\ AI_AVAILABLE
    /\ result[1].success = FALSE
    /\ ~docCalled
    /\ issued.at = None

\* C4: a client without a credential never issues a remote call, and its
\* records for texts with content carry extraction_method 'Regex fallback'.
C4_NoCredentialNoCall ==
    ~api_key =>
        /\ issued.at = None
        /\ ~docCalled
        /\ returned /\ ~no_text(text) =>
              result[1].extraction_method = "Regex fallback"

\* the second record of a batch on a client without a credential
C4_Witness ==
    /\ ~api_key
    /\ AI_AVAILABLE
    /\ entry = "batch"
    /\ n_results = 2
    /\ returned
    /\ ~no_text(text)
    /\ result[1].extraction_method = "Regex fallback"

\* C5: one _chat_with_retry invocation issues at most max_retries + 1 remote
\* calls; while it may still call it has issued at most max_retries, and
\* when call max_retries + 1 fails the error is raised to the caller.
C5_AtMostMaxRetriesPlusOneCalls ==
    /\ reqLog.calls <= max_retries + 1
    /\ pc = "chat_attempt" => reqLog.calls <= max_retries
    /\ reqLog.calls = max_retries + 1 /\ reqLog.last \notin {"ok", "none"} =>
          /\ reqLog.raised = reqLog.last
          /\ pc # "chat_attempt"

\* the last allowed attempt of a client with max_retries = 2 failed
C5_Witness ==
    /\ max_retries = 2
    /\ reqLog.calls = 3
    /\ reqLog.raised = "APITimeoutError"

\* C6: no remote call is issued while rate_limit_reset_time lies in the
\* future.
C6_NoCallBeforeDeadline == issued.at # None => ~issued.early

\* C7: a remote call follows the previous remote call of the client by at
\* least min_delay_between_calls.
C7_MinDelayBetweenCalls ==
    issued.gap # None => issued.gap[1] >= Seconds(min_delay_between_calls)

\* C8: the waits computed for consecutive rate-limit errors without a hint
\* are non-decreasing in the attempt and never exceed the rate-limit cap.
C8_WaitsNonDecreasingUnderCap ==
    backoff.cur # None =>
        /\ backoff.cur[1] <= caps("rate_limit")
        /\ backoff.prev # None => backoff.prev[1] <= backoff.cur[1]

\* a request whose first two attempts met rate-limit errors and whose third
\* attempt succeeded
TwoRateLimitsThenSuccess ==
    /\ reqLog.calls = 3
    /\ reqLog.rate_limited = 2
    /\ reqLog.last = "ok"

C10_BadRequestNeverRetried ==
    reqLog.last = "BadRequestError" =>
        /\ reqLog.calls = 1
        /\ reqLog.raised = "BadRequestError"

\* C11: a reply that holds no JSON of the expected shape ends its request
\* without an exception and without a further call, and the orchestrator
\* fills the referred cases, or the main group, by pattern extraction.
C11_UnparseableReplyDegrades ==
    reqLog.last = "ok" /\ reqLog.reply = "none" =>
        /\ reqLog.raised = "none"
        /\ pc # "chat_attempt"
        /\ reqLog.kind = "referred" =>
              case_referred = extract_case_referred(text)
        /\ reqLog.kind = "main" =>
              /\ returned
              /\ result[1].success = TRUE
              /\ result[1].extraction_method = "Regex fallback"

\* the main extraction request got a reply without a JSON object at its
\* first call
C11_Witness ==
    /\ reqLog.kind = "main"
    /\ reqLog.last = "ok"
    /\ reqLog.reply = "none"
    /\ reqLog.calls = 1
    /\ returned
    /\ result[1].extraction_method = "Regex fallback"

\* C12: a remote request of extract_from_text is started only on a client
\* with a credential and at a moment when no rate limit is active, that is,
\* when no stored deadline lies in the future.
C12_RequestOnlyWithoutActiveRateLimit ==
    pc = "chat_attempt" /\ reqLog.calls = 0 =>
        /\ api_key
        /\ rate_limit_reset_time = None \/ rate_limit_reset_time[1] <= now

\* C13: the pattern extraction of a field or group has run only after its
\* remote attempt was skipped or failed, never after it succeeded.
C13_PatternOnlyAfterRemoteSkippedOrFailed ==
    \A f \in cascade.pattern :
        cascade.remote[f] \in {"SKIPPED", "REMOTE_FAILED"}

\* C15: no leaf of the record made of an accepted reply, other than
\* singleCouncilDetailRequest, is null, also when the reply omits a field or
\* carries JSON null for it.
C15_NoNullLeaf ==
    fmt # None /\ fmt.record # None =>
        LET r == fmt.record[1]
        IN  \A leaf \in {r.appellant, r.respondent, r.judgeName,
                          r.judgementType, r.caseResult,
                          r.doubleCouncilDetailRequest.advocateForRespondent,
                          r.doubleCouncilDetailRequest.advocateForAppellant,
                          r.courtDetailRequest.allJudges,
                          r.citationRequest.otherCitation,
                          r.citationRequest.neutralCitation,
                          r.caseHistoryRequest.caseNumber,
                          r.caseHistoryRequest.decidedDay,
                          r.caseHistoryRequest.decidedMonth,
                          r.caseHistoryRequest.notes} :
                leaf # Null

\* C16: without remote extraction, a field none of whose patterns matches the
\* text holds its placeholder in the returned record: appellant 'Appellant',
\* respondent 'Respondents', judgeName 'none', caseNumber '1', notes 'none',
\* caseReferred the empty list.
C16_PlaceholderWithoutMatch ==
    pat # None /\ pat.record # None =>
        LET r == pat.record[1]
            f == pat.found
            unmatched(ms) == \A i \in DOMAIN ms : ms[i] = None
        IN  /\ unmatched(f.appellant) => r.appellant = "Appellant"
            /\ unmatched(f.respondent) => r.respondent = "Respondents"
            /\ unmatched(f.judge) => r.judgeName = "none"
            /\ unmatched(f.case_info) =>
                  /\ r.caseHistoryRequest.caseNumber = "1"
                  /\ r.caseHistoryRequest.notes = "none"
            /\ f.case_referred = <<>> => r.caseReferred = <<>>

\* a record whose appellant is the placeholder while the respondent and the
\* case number were found
C16_Witness ==
    /\ pat # None /\ pat.record # None
    /\ \A i \in 1..6 : pat.found.appellant[i] = None
    /\ pat.record[1].appellant = "Appellant"
    /\ pat.record[1].respondent = "Nagpur University"
    /\ pat.record[1].caseHistoryRequest.caseNumber = "2134"

\* C17: extract_batch takes the texts in input order (the text processed
\* next is the first of those left), returns one record per input text, and
\* sleeps delay_between_requests after every document but the last.
C17_BatchInOrderWithDelays ==
    /\ [](entry = "batch" =>
            /\ n_results + Len(queue) = n_texts
            /\ pc = "batch_next" =>
                  /\ queue # <<>>
                  /\ batch_slept = Seconds(delay_between_requests)
            /\ pc = "idle" => n_results = n_texts /\ batch_slept = 0)
    /\ [][pc = "batch_next" =>
            /\ text' \in {Head(queue), clean_text(Head(queue))}
            /\ queue' \in {queue, Tail(queue)}
            /\ n_results' \in {n_results, n_results + 1}]_vars

\* a batch of two texts, both with content, has returned its two records
C17_Witness ==
    /\ entry = "batch" /\ pc = "idle"
    /\ n_texts = 2 /\ n_results = 2
    /\ text = <<"a">> /\ returned /\ result[1].success = TRUE
    /\ reqLog.calls > 0

\* C18: the pattern list of every built-in field is its built-in patterns
\* followed by the custom patterns added for it, so that a field no custom
\* pattern was added for keeps its built-in list.
C18_CustomAfterBuiltIn ==
    lib # None =>
        \A f \in DOMAIN BuiltIn :
            lib.patterns[f] = BuiltIn[f] \o get(lib.added, f, <<>>)

\* C19: extract_metadata on a field name given to add_custom_pattern before,
\* and extract_all_fields, use every pattern added for that name.
C19_AddedPatternsUsed ==
    lib # None /\ lib.last.op \in {"extract_metadata", "extract_all_fields"} =>
        \A f \in DOMAIN lib.added :
            lib.last.op = "extract_all_fields" \/ f = lib.last.field =>
                /\ f \in DOMAIN lib.last.used
                /\ lib.last.used[f] # None
                /\ Range(lib.added[f]) \subseteq Range(lib.last.used[f][1])

\* C20: the tiers run in the order native, layout-aware, OCR; a later tier
\* runs only if the trimmed output of every earlier tier is empty (a tier
\* that raises gives the empty text); the text handed on is the output of
\* the first tier whose trimmed output is not empty.
C20_TiersInOrder ==
    tier # None /\ tier.out # None =>
        LET out == tier.out[1]
            names == <<"native", "layout", "ocr">>
            outputs ==
                <<extract_text_from_pdf(tier.pdf.native),
                  extract_text_from_pdf_with_pdfplumber(tier.pdf.layout),
                  extract_text_from_pdf_with_ocr(tier.pdf.ocr)>>
            empty_before(i) == \A j \in 1..(i - 1) : strip(outputs[j]) = <<>>
        IN  /\ Len(out.ran) \in 1..3
            /\ out.ran = SubSeq(names, 1, Len(out.ran))
            /\ \A i \in 1..3 : i <= Len(out.ran) <=> empty_before(i)
            /\ \A i \in 1..3 :
                  strip(outputs[i]) # <<>> /\ empty_before(i) =>
                      out.text = outputs[i]

\* the native text is blank, the layout-aware tier raises and OCR finds text
C20_Witness ==
    /\ tier # None /\ tier.out # None
    /\ tier.pdf.native = [raises |-> FALSE, pages |-> <<<<" ">>, <<>>>>]
    /\ tier.pdf.layout = [raises |-> TRUE, pages |-> <<>>]
    /\ tier.out[1].ran = <<"native", "layout", "ocr">>
    /\ tier.out[1].text = <<"a", "\n", "\n">>

\* C14: the step of extract_from_text that returns a record after the two
\* independent cascades (judge name, referred cases) puts the judge name of
\* its cascade in judgeName and the list of its cascade in caseReferred,
\* whether the main group came from the remote service or from patterns.
C14_IndependentCascadesInRecord ==
    [][(/\ pc = "probe" \/ (pc = "chat_attempt" /\ req = "main")
        /\ result' # None
        /\ pc' \in {"idle", "batch_next"})
       => /\ result'[1].judgeName = judge_name
          /\ result'[1].caseReferred = case_referred]_vars

\* C21: a page that fails inside a tier is skipped, the text of the pages
\* the tier did read being kept: the tiers hand on the text of the first
\* tier whose readable pages hold text, and hand on no text only when no
\* tier has a readable page with text.
C21_PageFailureSkipped ==
    tier # None /\ tier.out # None =>
        LET kept == <<native_text(tier.pdf.native.pages),
                      layout_text(tier.pdf.layout.pages),
                      ocr_text(tier.pdf.ocr.pages)>>
        IN  /\ \A i \in 1..3 :
                  /\ strip(kept[i]) # <<>>
                  /\ \A j \in 1..(i - 1) : strip(kept[j]) = <<>>
                  => tier.out[1].text = kept[i]
            /\ strip(tier.out[1].text) = <<>> =>
                  \A i \in 1..3 : strip(kept[i]) = <<>>

\* C22: the record made of a reply holds a complete court mapping (courtId,
\* courtBenchId, courtBranchId, citationCategory) for every court name, and
\* the generic default mapping for the empty name, a missing name and a name
\* that matches no court pattern.
C22_CourtMappingComplete ==
    fmt # None /\ fmt.record # None =>
        LET court_info == fmt.record[1].courtDetailRequest
            court_name == get(fmt.ai_data, "court_name", "")
        IN  /\ {"courtId", "courtBenchId", "courtBranchId",
                "citationCategory"} \subseteq DOMAIN court_info
            /\ court_info.courtId \in {1, 19}
            /\ court_name \in {Null, "", "District Court, Pune"} =>
                  /\ court_info.courtId = 1
                  /\ court_info.courtBenchId = 1
                  /\ court_info.courtBranchId = "34"
                  /\ court_info.citationCategory = ""

\* the record of a reply whose court_name is JSON null
C22_Witness ==
    /\ fmt # None /\ fmt.record # None
    /\ "court_name" \in DOMAIN fmt.ai_data
    /\ fmt.ai_data.court_name = Null
    /\ fmt.record[1].courtDetailRequest.courtBranchId = "34"
    /\ fmt.record[1].courtDetailRequest.citationCategory = ""

C24_DateDefaultsToCurrentYear ==
    /\ fmt # None /\ fmt.record # None
    /\ get(fmt.ai_data, "decided_date", "none")
          \in {Null, "none", "15th January 2023"}
    => /\ fmt.record[1].caseHistoryRequest.decidedDay = "1"
       /\ fmt.record[1].caseHistoryRequest.decidedMonth = "1"
       /\ fmt.record[1].caseHistoryRequest.decidedYear = fmt.year

\* --------------------------------------------------------------- TextSpec
\* The pattern extractors on judgment texts: a cause title (two party
\* blocks around Versus) or a title line of the bench.
PartyBlocks == {"UNION OF INDIA", "NIRMALA RAJPU"}

TextInit ==
    /\ ClientAtRest
    /\ fmt = None
    /\ pat \in [text : SeqsUpTo(Whitespace \cup PartyBlocks \cup {"Versus"},
                                 MaxTokens)
                          \cup SeqsUpTo(Whitespace
                                           \cup {JusticeLine, "JUDGMENT"},
                                        MaxTokens),
                 record : {None}, direct : {None}]
    /\ lib = None
    /\ tier = None

\* extract_from_text where remote_enabled is false: lines 229-238, then
\* 285-289
extract_from_text_regex(txt) ==
    IF no_text(txt) THEN create_error_result("No text content provided")
    ELSE LET cleaned == clean_text(txt)
         IN  regex_record(cleaned, extract_case_referred(cleaned),
                          extract_judge_regex(cleaned))

\* extract_from_text(text, use_ai=False)
ExtractFromTextWithoutRemote ==
    /\ pat.record = None
    /\ pat' = [pat EXCEPT !.record = <<extract_from_text_regex(pat.text)>>]
    /\ UNCHANGED <<client, backoff, fmt, lib, tier>>

\* _extract_with_regex(text) called on the text as it was read
ExtractWithRegex ==
    /\ pat.direct = None
    /\ pat' = [pat EXCEPT !.direct = <<extract_with_regex(pat.text)>>]
    /\ UNCHANGED <<client, backoff, fmt, lib, tier>>

TextSpec ==
    TextInit /\ [][ExtractFromTextWithoutRemote \/ ExtractWithRegex]_vars

\* C25: a text with Versus alone on a line between two party blocks gives,
\* through the pattern extractors with remote extraction off, the block
\* above as appellant and the block below as respondent.
C25_VersusBetweenPartyBlocks ==
    \A above \in PartyBlocks, below \in PartyBlocks :
        (/\ pat # None
         /\ "text" \in DOMAIN pat
         /\ pat.text = <<above, "\n", "Versus", "\n", below>>
         /\ pat.record # None)
        => /\ pat.record[1].appellant = above
           /\ pat.record[1].respondent = below

\* C26: a text that holds HON'BLE MR. JUSTICE JOHN DOE gives, through the
\* pattern extractors, the judge field John Doe.
C26_JudgeNameWithoutHonorifics ==
    (/\ pat # None
     /\ "text" \in DOMAIN pat
     /\ \E i \in DOMAIN pat.text : pat.text[i] = JusticeLine
     /\ pat.record # None)
    => pat.record[1].judgeName = "John Doe"

\* ---------------------------------------------------------------- PdfSpec
\* _extract_from_pdf of a client without a credential.  A document either
\* opens and shows a judgment on its only page, or has up to MaxPdfPages
\* pages that are blank or hold one word; content is what OCR would read
\* from the page images.  A judgment has up to MaxLines lines, or one line
\* followed by five lines without a keyword.
JudgmentLines ==
    {"", "Heard", "Heard.", "Appeal allowed",
     "Allowed, cross appeal dismissed.", "Disposed of", "Order accordingly"}

\* page.get_text() of a page that shows the lines ls
RECURSIVE page_of(_)
page_of(ls) ==
    IF ls = <<>> THEN <<>>
    ELSE (IF Head(ls) = "" THEN <<>> ELSE <<Head(ls)>>)
             \o <<"\n">> \o page_of(Tail(ls))

PdfInit ==
    /\ ClientIdle(FALSE)
    /\ fmt = None
    /\ pat = None
    /\ lib = None
    /\ tier \in
          [doc : [exists : {TRUE}, ext : {"pdf"}, opens : {TRUE},
                  pages :
                      {<<page_of(ls)>> :
                          ls \in SeqsUpTo(JudgmentLines, MaxLines)
                                 \cup {<<first>> \o rest :
                                          first \in JudgmentLines,
                                          rest \in [1..5 ->
                                                     {"", "Heard",
                                                      "Heard."}]}},
                  content : {<<>>}],
           PDF_AVAILABLE : {TRUE}, OCR_AVAILABLE : BOOLEAN,
           record : {None}]
          \cup
          [doc : [exists : {TRUE}, ext : {"pdf"}, opens : BOOLEAN,
                  pages : SeqsUpTo({<<>>, <<" ">>, <<"Heard">>},
                                   MaxPdfPages),
                  content : {<<>>, <<"Case No. 2024:XYZ:99">>}],
           PDF_AVAILABLE : BOOLEAN, OCR_AVAILABLE : BOOLEAN,
           record : {None}]

\* _extract_from_pdf, lines 125-196
ExtractFromPdf ==
    /\ tier.record = None
    /\ LET a == acquire(tier.doc, tier.PDF_AVAILABLE, tier.OCR_AVAILABLE)
           last_case_result_ == find_case_result(a.text)
       IN  tier' = [tier EXCEPT !.record =
                       <<IF ~a.ok THEN create_error_result(a.error)
                         ELSE [extract_from_text_regex(a.text)
                                  EXCEPT !.caseResult =
                                      IF last_case_result_ # Null
                                      THEN last_case_result_
                                      ELSE "none"]>>]
    /\ UNCHANGED <<client, backoff, fmt, pat, lib>>

PdfSpec == PdfInit /\ [][ExtractFromPdf]_vars

\* C27: a PDF whose native text layer is empty on every page and whose OCR
\* text holds "Case No. 2024:XYZ:99" gives, with OCR available, a record
\* that is no error record and has the case number 2024:XYZ:99.
C27_OcrTierReached ==
    (/\ tier # None
     /\ "doc" \in DOMAIN tier
     /\ tier.doc.opens /\ tier.PDF_AVAILABLE /\ tier.OCR_AVAILABLE
     /\ tier.doc.pages # <<>>
     /\ \A i \in DOMAIN tier.doc.pages : strip(tier.doc.pages[i]) = <<>>
     /\ tier.doc.content = <<"Case No. 2024:XYZ:99">>
     /\ tier.record # None)
    => /\ tier.record[1].success
       /\ tier.record[1].caseHistoryRequest.caseNumber = "2024:XYZ:99"

available_fields == <<"judge", "petitioner">>

\* What requests.post does with one request: it raises (or the reply
\* cannot be decoded), or it returns a status and, under 200, a content.
Remote ==
    [raises : {TRUE}, status_code : {0}, content : {""}]
    \cup [raises : {FALSE}, status_code : {200},
          content : {"", "Not found", "JOHN DOE",
                     "[\"Mr. Smith\", \"Ms. Johnson\"]"}]
    \cup [raises : {FALSE}, status_code : {401, 429, 500}, content : {""}]

\* _extract_with_openai, lines 84-151: the value returned (None as <<>>)
\* and the number of requests sent
extract_with_openai(ai_extractor, reply) ==
    IF ai_extractor = None THEN [requests |-> 0, value |-> None]
    ELSE [requests |-> 1,
          value |->
             IF reply.raises THEN None
             ELSE IF reply.status_code = 200
             THEN LET content == strip_str(reply.content)
                  IN  IF content # "" /\ lower(content) # "not found"
                      THEN <<CASE content =
                                    "[\"Mr. Smith\", \"Ms. Johnson\"]" ->
                                    "Mr. Smith; Ms. Johnson"
                               [] OTHER -> content>>
                      ELSE None
             ELSE IF reply.status_code = 429
             THEN <<"API quota exceeded">>
             ELSE None]

\* OpenAIOnlyMetadataExtractor.extract_metadata, lines 50-69
openai_extract_metadata(self, field, reply) ==
    IF ~self.enable_ai \/ self.ai_extractor = None
    THEN [requests |-> 0, value |-> "Not found"]
    ELSE LET ai_result == extract_with_openai(self.ai_extractor, reply)
         IN  [requests |-> ai_result.requests,
              value |-> IF ai_result.value # None /\ ai_result.value # <<"">>
                        THEN ai_result.value[1] ELSE "Not found"]

\* __init__, lines 32-41: AIExtractor() raises nothing
OpenAIInit ==
    /\ ClientAtRest
    /\ fmt = None
    /\ pat = None
    /\ tier = None
    /\ \E enable_ai \in BOOLEAN, ai_available \in BOOLEAN,
          openai_api_key \in {None, <<"">>, <<"sk-test">>} :
          lib = [enable_ai |-> enable_ai /\ ai_available,
                 ai_extractor |->
                    IF enable_ai /\ ai_available
                    THEN <<[openai_api_key |-> openai_api_key]>>
                    ELSE None,
                 call |-> NoCall]

OpenAIExtractMetadata ==
    /\ lib.call = NoCall
    /\ \E i \in DOMAIN available_fields, reply \in Remote :
          LET r == openai_extract_metadata(lib, available_fields[i], reply)
          IN  lib' = [lib EXCEPT !.call =
                         [op |-> "extract_metadata",
                          field |-> available_fields[i],
                          used |-> IF r.requests = 0 THEN <<>>
                                   ELSE <<reply>>,
                          out |-> <<r.value>>,
                          requests |-> r.requests]]
    /\ UNCHANGED <<client, backoff, fmt, pat, tier>>

\* extract_all_fields, lines 438-445: every field sends a request, or none
\* does
OpenAIExtractAllFields ==
    /\ lib.call = NoCall
    /\ \E replies \in [DOMAIN available_fields -> Remote] :
          LET r == [i \in DOMAIN available_fields |->
                       openai_extract_metadata(lib, available_fields[i],
                                               replies[i])]
          IN  lib' = [lib EXCEPT !.call =
                         [op |-> "extract_all_fields", field |-> "",
                          used |-> IF r[1].requests = 0 THEN <<>>
                                   ELSE replies,
                          out |-> [i \in DOMAIN r |-> r[i].value],
                          requests |-> IF r[1].requests = 0 THEN 0
                                       ELSE Len(available_fields)]]
    /\ UNCHANGED <<client, backoff, fmt, pat, tier>>

OpenAISpec ==
    OpenAIInit /\ [][OpenAIExtractMetadata \/ OpenAIExtractAllFields]_vars

\* C28: an extractor whose AIExtractor resolved no credential sends no
\* request: extract_metadata and extract_all_fields return Not found for
\* every field without calling the remote service.
C28_NoRequestWithoutCredential ==
    (/\ lib # None
     /\ "ai_extractor" \in DOMAIN lib
     /\ lib.ai_extractor # None
     /\ lib.ai_extractor[1].openai_api_key = None
     /\ lib.call # NoCall)
    => /\ lib.call.requests = 0
       /\ \A i \in DOMAIN lib.call.out : lib.call.out[i] = "Not found"

\* C29: extract_metadata returns text of a reply with status 200 or Not
\* found; after a request that raised or whose status is not 200 (429
\* included) it returns Not found.
C29_FailedRequestGivesNotFound ==
    (/\ lib # None
     /\ "ai_extractor" \in DOMAIN lib
     /\ lib.call # NoCall
     /\ lib.call.op = "extract_metadata")
    => \/ lib.call.out[1] = "Not found"
       \/ /\ lib.call.used # <<>>
          /\ ~lib.call.used[1].raises
          /\ lib.call.used[1].status_code = 200

====
